---- MODULE Spec2Model ----
(***************************************************************************)
(* A state-machine model of the depth-video extraction core of             *)
(* moseq2-extract (src/moseq2_extract/extract/proc.py and                  *)
(* src/moseq2_extract/helpers/extract.py).                                 *)
(*                                                                         *)
(* Numbers.  Coordinates, areas and probabilities are small integers.      *)
(* Orientations are counted in quarter turns (90 degrees), so that the     *)
(* cosine of a difference of orientations is one of 1, 0, -1.  np.nan is   *)
(* the integer NaN, which lies outside every range of values used.         *)
(* The code is read as it runs on the numpy it was written for (np.int,    *)
(* used at proc.py:510, exists).                                           *)
(***************************************************************************)
EXTENDS Integers, Sequences, FiniteSets, TLC

\* ------------------------------------------------------------- bounds
\* Frames handed to one call of get_frame_features.
MaxFrames == 2
\* Contours cv2.findContours reports in one frame (at least number_of_mice
\* are always allowed, see CntsBound).
MaxCnts == 2
\* Largest enclosed area of a contour.
MaxArea == 2

\* np.nan: the "missing" marker of features and moments.
NaN == -99

VARIABLES
    \* ---- get_frame_features
    number_of_mice,          \* argument number_of_mice
    use_cc,                  \* argument use_cc
    nframes,                 \* frames.shape[0]
    i,                       \* loop index: frames already handled
    first_valid_frame,       \* local flag of the same name
    mice_last_centroids,     \* last centroid per identity (<<>> while unbound)
    mice_last_orientations,  \* last orientation per identity (<<>> while unbound)
    frame,                   \* frames[i] while the loop body runs on it
    features,                \* row of features_list of the frame at hand: a record per identity
    pc,                      \* "loop" (head), "body", "done" (returned) or "raised"
    \* ---- process_extract_batches
    batch,                   \* index of the batch being extracted
    carried,                 \* last centroids/orientations when the previous chunk call returned
    \* ---- get_flips
    flip_args,               \* what the call is given and what its collaborators answer
    flips,                   \* the returned array (<<>> until returned)
    printed,                 \* the messages printed
    flip_pc,                 \* "idle", "call", "returned" or "raised"
    \* ---- get_roi
    roi_args,                \* the labelled regions and the arguments
    rois,                    \* the returned list: the region each mask was made from
    bboxes,                  \* the list of bounding boxes, by region
    roi_pc,                  \* "idle", "call", "returned" or "raised"
    \* ---- feature_hampel_filter
    hampel_args,             \* the features passed in and the spans
    hfeatures,               \* the features dict, changed in place
    hampel_pc,                \* "idle", "call", "returned" or "raised"
    \* ---- model_smoother
    smoother_args,           \* the features, ll and clips passed in
    sfeatures,               \* the features dict, changed in place
    smoother_pc,              \* "idle", "call", "returned" or "raised"
    \* ---- compute_scalars
    scalar_args,             \* the tracked centroid and the masked heights
    scalars,                 \* the dict of scalars returned
    scalar_pc,                \* "idle", "call" or "returned"
    \* ---- process_extract_batches, what it writes
    write_args,              \* frame_batches, first_frame_idx and config_data
    batch_i,                 \* i, the batches handled so far
    h5_file,                 \* the writes to the h5 file, in order
    output_movie,            \* the frames sent to the preview movie, in order
    write_pc,                 \* "idle", "loop", "returned" or "raised"
    \* ---- crop_and_rotate_frames
    crop_args,               \* the frames' shape, features['centroid'], crop_size
    crop_i,                  \* frames the loop has handled
    cropped_frames,          \* per frame: the zero canvas or the window cut
    crop_pc                  \* "idle", "loop", "returned" or "raised"

trackVars == <<number_of_mice, use_cc, nframes, i, first_valid_frame,
               mice_last_centroids, mice_last_orientations, frame, features, pc,
               batch, carried>>

flipVars == <<flip_args, flips, printed, flip_pc>>

roiVars == <<roi_args, rois, bboxes, roi_pc>>

hampelVars == <<hampel_args, hfeatures, hampel_pc>>

smootherVars == <<smoother_args, sfeatures, smoother_pc>>

scalarVars == <<scalar_args, scalars, scalar_pc>>

writeVars == <<write_args, batch_i, h5_file, output_movie, write_pc>>

cropVars == <<crop_args, crop_i, cropped_frames, crop_pc>>

vars == <<trackVars, flipVars, roiVars, hampelVars, smootherVars, scalarVars, writeVars, cropVars>>

\* ------------------------------------------------------------ helpers
Range(f) == {f[x] : x \in DOMAIN f}

SeqsUpTo(S, n) == UNION {[1..m -> S] : m \in 0..n}

Injective(f) == \A a, b \in DOMAIN f : f[a] = f[b] => a = b

SetMin(S) == CHOOSE x \in S : \A y \in S : x <= y

SetMax(S) == CHOOSE x \in S : \A y \in S : x >= y

Abs(x) == IF x < 0 THEN -x ELSE x

\* cos of an angle given in quarter turns.
Cos(q) ==
    LET r == q % 4
    IN  IF r = 0 THEN 1 ELSE IF r = 2 THEN -1 ELSE 0

\* ------------------------------------------------- frames and contours
\* The values of number_of_mice that are run.
MiceChoices == {1, 2, 4}

Ids(n) == 0..(n - 1)

\* The blobs drawn: where a blob lies and how it is turned.
Shapes ==
    {[centroid |-> <<0, 0>>, orientation |-> 0],
     [centroid |-> <<1, 0>>, orientation |-> 0],
     [centroid |-> <<0, 0>>, orientation |-> 1]}

\* The areas enumerated: with more than two identities only blobs of area 1
\* are drawn, to keep the four-identity frames enumerable.
Areas(n) == IF n > 2 THEN {1} ELSE 0..MaxArea

\* A contour as cv2.moments sees it: m00 is its enclosed area
\* (cv2.contourArea), the other fields are what im_moment_features derives
\* from its moments when m00 is not 0.
Contours(n) ==
    {[m00 |-> a, centroid |-> s.centroid, orientation |-> s.orientation,
      axis_length |-> <<2, 1>>] : a \in Areas(n), s \in Shapes}

CntsBound(n) == IF n > MaxCnts THEN n ELSE MaxCnts

\* A frame: cc says whether frames[i] > mask_threshold has any foreground
\* pixel (a connected component besides the background); cnts are the
\* contours of the final frame_mask in discovery order.
Frames(n) ==
    {[cc |-> FALSE, cnts |-> <<>>]}
        \cup {[cc |-> TRUE, cnts |-> s] : s \in SeqsUpTo(Contours(n), CntsBound(n))}

NoFrame == [cc |-> TRUE, cnts |-> <<>>]

\* ------------------------------------------------- im_moment_features
MissingFeatures ==
    [orientation |-> NaN, centroid |-> <<NaN, NaN>>, axis_length |-> <<NaN, NaN>>]

im_moment_features(c) ==
    IF c.m00 = 0
        THEN MissingFeatures
        ELSE [orientation |-> c.orientation, centroid |-> c.centroid,
              axis_length |-> c.axis_length]

IsMissing(f) ==
    /\ f.orientation = NaN
    /\ f.centroid = <<NaN, NaN>>
    /\ f.axis_length = <<NaN, NaN>>

HasMissing(f) ==
    \/ f.orientation = NaN
    \/ NaN \in Range(f.centroid)
    \/ NaN \in Range(f.axis_length)

\* ------------------------------------------------------ get_largest_cc
\* szs[1:].argmax() on a frame whose only component is the background is
\* the argmax of an empty array: numpy raises ValueError.
get_largest_cc_raises(fr) == ~fr.cc

\* ---------------------------------------------- get_frame_features: one frame
MissingRow(n) == [id \in Ids(n) |-> MissingFeatures]

\* tmp.size < number_of_mice
TooFewContours(cnts, n) == Len(cnts) < n

\* numpy's selection for a small kth (npysort/selection, dumb_select, taken
\* by introselect when kth < 3): for i = 0..kth, the first position from i on
\* that holds the least area is swapped to position i.  idx maps positions
\* 0..len-1 to contour numbers 1..len.
RECURSIVE dumb_select(_, _, _, _)
dumb_select(cnts, idx, p, kth) ==
    IF p > kth THEN idx
    ELSE
        LET num == Len(cnts)
            least == SetMin({cnts[idx[k]].m00 : k \in p..(num - 1)})
            minidx == SetMin({k \in p..(num - 1) : cnts[idx[k]].m00 = least})
        IN  dumb_select(cnts,
                        [k \in DOMAIN idx |->
                            IF k = p THEN idx[minidx]
                            ELSE IF k = minidx THEN idx[p] ELSE idx[k]],
                        p + 1, kth)

\* mouse_cnts = np.argpartition(tmp, -n)[-n:] (proc.py:457): the last n
\* entries of the index array partitioned at kth = len - n, which is below 3
\* for every frame enumerated here.
ArgPartition(cnts, n) ==
    LET num == Len(cnts)
        idx == dumb_select(cnts, [k \in 0..(num - 1) |-> k + 1], 0, num - n)
    IN  [k \in Ids(n) |-> idx[num - n + k]]

Dist2(a, b) == (a[1] - b[1]) * (a[1] - b[1]) + (a[2] - b[2]) * (a[2] - b[2])

\* The last identity at the smallest distance, to set against NearestId.
NearestIdLast(last, c, n) ==
    SetMax({id \in Ids(n) : \A o \in Ids(n) : Dist2(last[id], c) <= Dist2(last[o], c)})

\* np.argmax(-centroid_distance_scores): the first identity at the smallest
\* distance (dividing by the largest distance keeps the order; 0/0 gives
\* nan everywhere and argmax 0, the same identity).
NearestId(last, c, n) ==
    SetMin({id \in Ids(n) : \A o \in Ids(n) : Dist2(last[id], c) <= Dist2(last[o], c)})

\* scipy.linalg.norm checks its argument for nan (check_finite) and raises
\* ValueError; a ragged mice_last_centroids (a nan beside [x, y] rows)
\* raises at the subtraction.
NormRaises(last, feats, n) ==
    \E k \in Ids(n) : NaN \in Range(last[k]) \/ NaN \in Range(feats[k].centroid)

\* The ids of assigned[k..n-1] that occur more than once in assigned and
\* are not in acc, appended to acc in order of occurrence.
RECURSIVE DupScan(_, _, _, _)
DupScan(assigned, k, n, acc) ==
    IF k = n THEN acc
    ELSE IF /\ \E o \in Ids(n) : o # k /\ assigned[o] = assigned[k]
            /\ \A p \in DOMAIN acc : acc[p] # assigned[k]
        THEN DupScan(assigned, k + 1, n, Append(acc, assigned[k]))
        ELSE DupScan(assigned, k + 1, n, acc)

\* Counter(assigned_ids).items() with count > 1, in order of first occurrence.
DuplicatedIds(assigned, n) == DupScan(assigned, 0, n, <<>>)

RECURSIVE SortedSeq(_)
SortedSeq(S) ==
    IF S = {} THEN <<>>
    ELSE LET m == SetMin(S) IN <<m>> \o SortedSeq(S \ {m})

\* A pool of the identities no blob claimed alone, to set against FreeIds.
FreeIdsUnclaimed(assigned, n) == SortedSeq(Ids(n) \ Range(assigned))

\* set(range(n)).difference(assigned_ids).union(duplicated_ids), as an array
\* (a set of small integers lists in increasing order).
FreeIds(assigned, n) ==
    SortedSeq((Ids(n) \ Range(assigned)) \cup Range(DuplicatedIds(assigned, n)))

\* np.squeeze(np.argwhere(assigned_ids == dup_id))
Culprits(assigned, dup_id) == SortedSeq({k \in DOMAIN assigned : assigned[k] = dup_id})

RECURSIVE SumCost(_, _, _)
SumCost(cost, a, r) ==
    IF r = 0 THEN 0
    ELSE (IF a[r] = 0 THEN 0 ELSE cost[r][a[r]]) + SumCost(cost, a, r - 1)

\* The matchings of min(nr, nc) of the rows 1..nr to distinct columns
\* 1..nc; 0 marks a row left unmatched.
Matchings ==
    [nr \in 1..SetMax(MiceChoices) |->
        [nc \in 0..SetMax(MiceChoices) |->
            {a \in [1..nr -> 0..nc] :
                /\ \A r1, r2 \in 1..nr : (a[r1] = a[r2] /\ a[r1] # 0) => r1 = r2
                /\ Cardinality({r \in 1..nr : a[r] # 0}) = (IF nr < nc THEN nr ELSE nc)}]]

\* scipy.optimize.linear_sum_assignment on an nr x nc cost matrix: a matching
\* of min(nr, nc) rows to distinct columns of least total cost.  Which of
\* several least-cost matchings is returned is the solver's choice.
linear_sum_assignment(cost, nr, nc) ==
    LET best == SetMin({SumCost(cost, a, nr) : a \in Matchings[nr][nc]})
    IN  {a \in Matchings[nr][nc] : SumCost(cost, a, nr) = best}

\* proc.py:516, np.delete(free_ids, assignment): np.delete returns a new
\* array and the call's value is dropped, so free_ids is what it was.
FreeIdsAfterGroup(free_ids, assignment) == free_ids

\* The loop over duplicated_ids (proc.py:500-516): every new_assigned_ids it
\* can end with.  assignment is np.zeros filled from the solver's pairs, so a
\* row the solver left unmatched points at the first free id.
RECURSIVE ResolveGroups(_, _, _, _, _, _)
ResolveGroups(dups, g, assigned, new_assigned, free_ids, ods) ==
    IF g > Len(dups) THEN {new_assigned}
    ELSE
        LET culprits == Culprits(assigned, dups[g])
            cost == [l \in 1..Len(culprits) |->
                        [m \in 1..Len(free_ids) |-> -ods[culprits[l]][free_ids[m]]]]
            pos(a, l) == IF a[l] = 0 THEN 1 ELSE a[l]
        IN  UNION {
                ResolveGroups(dups, g + 1, assigned,
                    [k \in DOMAIN new_assigned |->
                        IF \E l \in 1..Len(culprits) : culprits[l] = k
                            THEN LET l == CHOOSE l \in 1..Len(culprits) : culprits[l] = k
                                 IN  free_ids[pos(a, l)]
                            ELSE new_assigned[k]],
                    FreeIdsAfterGroup(free_ids, [l \in 1..Len(culprits) |-> pos(a, l)]),
                    ods)
                : a \in linear_sum_assignment(cost, Len(culprits), Len(free_ids))}

\* assigned_ids after the greedy pass (proc.py:479-490).
GreedyIds(feats, last, n) == [k \in Ids(n) |-> NearestId(last, feats[k].centroid, n)]

\* orientation_distance_scores (proc.py:486).
OrientationScores(feats, lastO, n) ==
    [k \in Ids(n) |-> [m \in Ids(n) |-> Cos(lastO[m] - feats[k].orientation)]]

\* Every final assigned_ids of a later valid frame (proc.py:476-517).
FinalIds(feats, lastC, lastO, n) ==
    LET assigned == GreedyIds(feats, lastC, n)
        dups == DuplicatedIds(assigned, n)
    IN  IF Len(dups) > 0
            THEN ResolveGroups(dups, 1, assigned, assigned, FreeIds(assigned, n),
                               OrientationScores(feats, lastO, n))
            ELSE {assigned}

\* The writing loop (proc.py:521-529): blob k overwrites what an earlier
\* blob with the same id wrote; an id no blob holds keeps its old value.
Written(assigned, vals, old, n) ==
    [id \in Ids(n) |->
        IF \E k \in Ids(n) : assigned[k] = id
            THEN vals[SetMax({k \in Ids(n) : assigned[k] = id})]
            ELSE old[id]]

\* What one pass of the loop body leaves behind.
Outcome(raised, fvf, cs, os, row) ==
    [raised |-> raised, first_valid_frame |-> fvf, centroids |-> cs,
     orientations |-> os, features |-> row]

\* An exception leaves the loop: nothing of this frame was written.
Raise(fvf, lastC, lastO, n) == Outcome(TRUE, fvf, lastC, lastO, MissingRow(n))

\* A tracker that would start over at a frame short of contours, to set
\* against InvalidFrame.
InvalidFrameRestarts(fvf, lastC, lastO, n) ==
    Outcome(FALSE, FALSE, <<>>, <<>>, MissingRow(n))

\* proc.py:453-454, `continue`: row i keeps the nan it was created with and
\* no local changes.
InvalidFrame(fvf, lastC, lastO, n) == Outcome(FALSE, fvf, lastC, lastO, MissingRow(n))

\* proc.py:459-472: the first valid frame gives blob k identity k.
FirstValidFrame(cnts, sel, n) ==
    LET feats == [k \in Ids(n) |-> im_moment_features(cnts[sel[k]])]
    IN  Outcome(FALSE, TRUE,
                [k \in Ids(n) |-> feats[k].centroid],
                [k \in Ids(n) |-> feats[k].orientation],
                feats)

\* proc.py:476-529: a later valid frame with several identities.
LaterFrameMulti(cnts, sel, lastC, lastO, n) ==
    LET feats == [k \in Ids(n) |-> im_moment_features(cnts[sel[k]])]
    IN  IF NormRaises(lastC, feats, n)
            THEN {Raise(TRUE, lastC, lastO, n)}
            ELSE {Outcome(FALSE, TRUE,
                          Written(ids, [k \in Ids(n) |-> feats[k].centroid], lastC, n),
                          Written(ids, [k \in Ids(n) |-> feats[k].orientation], lastO, n),
                          Written(ids, feats, MissingRow(n), n))
                  : ids \in FinalIds(feats, lastC, lastO, n)}

\* proc.py:530-534: a later valid frame with one identity takes cnts[0].
LaterFrameSingle(cnts, lastC, lastO) ==
    Outcome(FALSE, TRUE, lastC, lastO, [id \in Ids(1) |-> im_moment_features(cnts[1])])

\* The loop body (proc.py:434-534) on frame fr: every way it can end.
FrameOutcomes(fr, n, cc, fvf, lastC, lastO) ==
    IF cc /\ get_largest_cc_raises(fr)
        THEN {Raise(fvf, lastC, lastO, n)}
    ELSE IF TooFewContours(fr.cnts, n)
        THEN {InvalidFrame(fvf, lastC, lastO, n)}
    ELSE IF ~fvf
        THEN {FirstValidFrame(fr.cnts, ArgPartition(fr.cnts, n), n)}
    ELSE IF n > 1
        THEN LaterFrameMulti(fr.cnts, ArgPartition(fr.cnts, n), lastC, lastO, n)
    ELSE {LaterFrameSingle(fr.cnts, lastC, lastO)}

\* ------------------------------------------------------------- actions
\* The state a call of get_frame_features starts in (proc.py:413-432).
CallStart(n) ==
    /\ i = 0
    /\ first_valid_frame = FALSE
    /\ mice_last_centroids = <<>>
    /\ mice_last_orientations = <<>>
    /\ frame = NoFrame
    /\ features = MissingRow(n)
    /\ pc = "loop"

\* The loop head (proc.py:434): frames[i] is taken up; features now stands
\* for row i, which holds the nan it was created with (proc.py:423-430).
ReadFrame ==
    /\ pc = "loop"
    /\ i < nframes
    /\ \E fr \in Frames(number_of_mice) : frame' = fr
    /\ features' = MissingRow(number_of_mice)
    /\ pc' = "body"
    /\ UNCHANGED <<number_of_mice, use_cc, nframes, i, first_valid_frame,
                   mice_last_centroids, mice_last_orientations, batch, carried>>
    /\ UNCHANGED <<flipVars, roiVars, hampelVars, smootherVars, scalarVars, writeVars, cropVars>>

\* The loop body (proc.py:435-534) on the frame taken up.
ProcessFrame ==
    /\ pc = "body"
    /\ \E out \in FrameOutcomes(frame, number_of_mice, use_cc, first_valid_frame,
                                mice_last_centroids, mice_last_orientations) :
            /\ pc' = IF out.raised THEN "raised" ELSE "loop"
            /\ first_valid_frame' = out.first_valid_frame
            /\ mice_last_centroids' = out.centroids
            /\ mice_last_orientations' = out.orientations
            /\ features' = out.features
    /\ i' = i + 1
    /\ frame' = NoFrame
    /\ UNCHANGED <<number_of_mice, use_cc, nframes, batch, carried>>
    /\ UNCHANGED <<flipVars, roiVars, hampelVars, smootherVars, scalarVars, writeVars, cropVars>>

\* return features_list, mask (proc.py:536).
ReturnFeatures ==
    /\ pc = "loop"
    /\ i = nframes
    /\ pc' = "done"
    /\ UNCHANGED <<number_of_mice, use_cc, nframes, i, first_valid_frame,
                   mice_last_centroids, mice_last_orientations, frame, features,
                   batch, carried>>
    /\ UNCHANGED <<flipVars, roiVars, hampelVars, smootherVars, scalarVars, writeVars, cropVars>>

\* Batches process_extract_batches is given.
MaxBatches == 2
\* Frames per batch in the batch specification.
MaxBatchFrames == 1

NoCarry == [centroids |-> <<>>, orientations |-> <<>>, valid |-> FALSE]

\* process_extract_batches, the next pass of its loop (extract.py:91-104):
\* extract_chunk is called again with config_data, str_els, the raw chunk,
\* roi and bground; get_frame_features takes no tracker state and starts
\* from proc.py:413-432.  carried remembers what the call that returned
\* knew, which nothing hands on.
NextBatch ==
    /\ pc = "done"
    /\ batch + 1 < MaxBatches
    /\ batch' = batch + 1
    /\ carried' = [centroids |-> mice_last_centroids,
                   orientations |-> mice_last_orientations,
                   valid |-> first_valid_frame]
    /\ i' = 0
    /\ first_valid_frame' = FALSE
    /\ mice_last_centroids' = <<>>
    /\ mice_last_orientations' = <<>>
    /\ frame' = NoFrame
    /\ features' = MissingRow(number_of_mice)
    /\ pc' = "loop"
    /\ UNCHANGED <<number_of_mice, use_cc, nframes>>
    /\ UNCHANGED <<flipVars, roiVars, hampelVars, smootherVars, scalarVars, writeVars, cropVars>>


\* ------------------------------------------------------------------
\* get_flips (proc.py:27-64)

\* Frames handed to get_flips.
MaxFlipFrames == 3
\* A probability is a number of steps out of ProbSteps.
ProbSteps == 2

\* smoothing: 0 stands for None, which proc.py:58 takes as false; a median
\* kernel is odd.
SmoothingChoices == {0, 3}

\* clf.classes_: the orderings that hold the flip class 1.
ClassOrders == {<<0, 1>>, <<1, 0>>}

\* What a call is given: whether joblib can load flip_file, the loaded
\* classifier's classes_, whether the crop size fits the classifier, the
\* probability the classifier gives class 1 on each frame, and smoothing.
FlipArgs ==
    UNION {[loadable : BOOLEAN, classes_ : ClassOrders, fits : BOOLEAN,
            proba : [1..n -> 0..ProbSteps], smoothing : SmoothingChoices]
           : n \in 1..MaxFlipFrames}

\* A load that would never fail, to set against joblib_load.
joblib_load_quiet(loadable) == "clf"

\* joblib.load(flip_file) inside the try of proc.py:40-44.
joblib_load(loadable) == IF loadable THEN "clf" ELSE "IOError"

\* np.where(clf.classes_ == 1)[0] (proc.py:46), as a column index from 0.
flip_class(classes) == (CHOOSE j \in DOMAIN classes : classes[j] = 1) - 1

\* clf.predict_proba (proc.py:49-50): one column per class, in the order of
\* classes_.
predict_proba(a) ==
    [f \in DOMAIN a.proba |->
        [j \in 1..2 |-> IF a.classes_[j] = 1 THEN a.proba[f]
                        ELSE ProbSteps - a.proba[f]]]

\* The default output of proc.py:56: column 0 all 0, column 1 all 1.
DefaultProbas(n) == [f \in 1..n |-> <<0, 1>>]

\* The median of an odd number of values.
MedianOdd(w) ==
    CHOOSE v \in Range(w) :
        /\ Cardinality({q \in DOMAIN w : w[q] < v}) <= Len(w) \div 2
        /\ Cardinality({q \in DOMAIN w : w[q] <= v}) > Len(w) \div 2

\* scipy.signal.medfilt(col, k): the median over k neighbours, the array
\* padded with zeros.
medfilt(col, k) ==
    [p \in DOMAIN col |->
        MedianOdd([q \in 1..k |->
            LET at == p - (k \div 2) + q - 1
            IN  IF at \in DOMAIN col THEN col[at] ELSE 0])]

\* proc.py:58-60: each column filtered when smoothing is set.
Smooth(probas, smoothing) ==
    IF smoothing = 0 THEN probas
    ELSE [f \in DOMAIN probas |->
            [j \in 1..2 |-> medfilt([g \in DOMAIN probas |-> probas[g][j]],
                                    smoothing)[f]]]

\* argmax along axis 1: the first column holding the row's maximum.
ArgMax(row) == IF row[2] > row[1] THEN 1 ELSE 0

\* The whole of get_flips.
get_flips(a) ==
    IF joblib_load(a.loadable) = "IOError"
    THEN [status |-> "raised", flips |-> <<>>,
          printed |-> {"Could not open file"}]
    ELSE LET n == Len(a.proba)
             probas == IF a.fits THEN predict_proba(a) ELSE DefaultProbas(n)
             smoothed == Smooth(probas, a.smoothing)
         IN  [status |-> "returned",
              flips |-> [f \in 1..n |->
                            ArgMax(smoothed[f]) = flip_class(a.classes_)],
              printed |-> IF a.fits THEN {}
                          ELSE {"WARNING: Input crop-size is not compatible with flip classifier.",
                                "The extracted data will NOT be flipped!"}]

FlipsIdle ==
    /\ flip_args = [loadable |-> TRUE, classes_ |-> <<0, 1>>, fits |-> TRUE,
                    proba |-> <<>>, smoothing |-> 0]
    /\ flips = <<>>
    /\ printed = {}
    /\ flip_pc = "idle"

\* One call of get_flips.
GetFlips ==
    /\ flip_pc = "call"
    /\ LET r == get_flips(flip_args)
       IN  /\ flips' = r.flips
           /\ printed' = r.printed
           /\ flip_pc' = r.status
    /\ UNCHANGED <<flip_args, trackVars, roiVars, hampelVars, smootherVars, scalarVars, writeVars, cropVars>>

\* ------------------------------------------------------------------
\* get_roi (proc.py:176-293)

\* Connected components the labelling finds.
MaxRegions == 3

\* What regionprops gives for a component: its area, its extent, and the
\* greatest distance of one of its pixels from the image centre, each small
\* or large.
AreaChoices == {1, 2}
ExtentChoices == {1, 2}
DistChoices == {1, 2}

RegionProps == [area : AreaChoices, extent : ExtentChoices, dist : DistChoices]

\* bg_roi_weights in tenths: the default (1, .1, 1) and equal weights.
WeightChoices == {<<10, 1, 10>>, <<10, 10, 10>>}

\* What a call is given: the components, the weights, whether overlap_roi
\* is supplied and the pixels of each component's mask that lie inside it.
RoiArgs ==
    UNION {[region_properties : [1..n -> RegionProps],
            bg_roi_weights : WeightChoices,
            overlap_roi : {FALSE},
            overlap : {[r \in 1..n |-> 0]}]
           \cup
           [region_properties : [1..n -> RegionProps],
            bg_roi_weights : WeightChoices,
            overlap_roi : {TRUE},
            overlap : [1..n -> 0..1]]
           : n \in 0..MaxRegions}

\* scipy.stats.rankdata(vals, method='max'): the number of entries that are
\* not above entry r.
rankdata(vals, r) == Cardinality({j \in DOMAIN vals : vals[j] <= vals[r]})

\* Ranks of the areas themselves, smallest first, to set against AreaRanks.
AreaRanksAscending(props) ==
    [r \in DOMAIN props |-> rankdata([j \in DOMAIN props |-> props[j].area], r)]

\* proc.py:254-256: the three rows of ranks.
AreaRanks(props) ==
    [r \in DOMAIN props |-> rankdata([j \in DOMAIN props |-> -props[j].area], r)]

ExtentRanks(props) ==
    [r \in DOMAIN props |-> rankdata([j \in DOMAIN props |-> -props[j].extent], r)]

DistRanks(props) ==
    [r \in DOMAIN props |-> rankdata([j \in DOMAIN props |-> props[j].dist], r)]

\* proc.py:257-258: the weighted ranks summed over the three rows (three
\* times their mean, in tenths).
WeightedRanks(props, w) ==
    [r \in DOMAIN props |->
        w[1] * AreaRanks(props)[r] + w[2] * ExtentRanks(props)[r]
        + w[3] * DistRanks(props)[r]]

Orders ==
    [n \in 0..MaxRegions |-> {f \in [1..n -> 1..n] : Injective(f)}]

\* argsort (proc.py:258): the orders that sort the scores ascending; the
\* default sort is not stable, equal scores come in either order.
argsort(scores) ==
    {f \in Orders[Len(scores)] :
        \A a, b \in DOMAIN f : a < b => scores[f[a]] <= scores[f[b]]}

\* The first position of the least entry, to set against FirstArgMax.
FirstArgMin(s) ==
    CHOOSE p \in DOMAIN s :
        /\ \A q \in DOMAIN s : s[p] <= s[q]
        /\ \A q \in DOMAIN s : q < p => s[p] < s[q]

\* np.argmax: the first position of the greatest entry.
FirstArgMax(s) ==
    CHOOSE p \in DOMAIN s :
        /\ \A q \in DOMAIN s : s[q] <= s[p]
        /\ \A q \in DOMAIN s : q < p => s[q] < s[p]

\* del seq[p]
DelAt(s, p) == [k \in 1..(Len(s) - 1) |-> IF k < p THEN s[k] ELSE s[k + 1]]

\* get_bbox(roi) of the mask made from component r.
BBoxOf(r) == <<"bbox", r>>

\* proc.py:280-288 on the ordered lists: the mask that overlaps most is
\* taken out; np.argmax of an empty array raises ValueError.
RemoveOverlap(a, order) ==
    LET overlaps == [k \in DOMAIN order |-> a.overlap[order[k]]]
        boxes == [k \in DOMAIN order |-> BBoxOf(order[k])]
    IN  IF ~a.overlap_roi
        THEN [status |-> "returned", rois |-> order, bboxes |-> boxes]
        ELSE IF Len(order) = 0
        THEN [status |-> "raised", rois |-> order, bboxes |-> boxes]
        ELSE [status |-> "returned",
              rois |-> DelAt(order, FirstArgMax(overlaps)),
              bboxes |-> DelAt(boxes, FirstArgMax(overlaps))]

\* The whole of get_roi from the region properties on: the outcomes.
get_roi(a) ==
    {RemoveOverlap(a, order) :
        order \in argsort(WeightedRanks(a.region_properties, a.bg_roi_weights))}

RoiIdle ==
    /\ roi_args = [region_properties |-> <<>>, bg_roi_weights |-> <<10, 1, 10>>,
                   overlap_roi |-> FALSE, overlap |-> <<>>]
    /\ rois = <<>>
    /\ bboxes = <<>>
    /\ roi_pc = "idle"

\* One call of get_roi.
GetRoi ==
    /\ roi_pc = "call"
    /\ \E r \in get_roi(roi_args) :
           /\ rois' = r.rois
           /\ bboxes' = r.bboxes
           /\ roi_pc' = r.status
    /\ UNCHANGED <<roi_args, trackVars, flipVars, hampelVars, smootherVars, scalarVars, writeVars, cropVars>>

\* ------------------------------------------------------------------
\* feature_hampel_filter (proc.py:684-724)
\* A coordinate or an angle is held as four times its value, so that the
\* median of an even number of entries, and the median of the deviations
\* from it, are integers.

\* Frames in the features handed to the filter.
MaxSeries == 3
\* The first centroid coordinate ranges over -MaxVal..MaxVal.
MaxVal == 2

\* The default of centroid_hampel_span and angle_hampel_span.
None == -1
\* The defaults of centroid_hampel_sig and angle_hampel_sig.
centroid_hampel_sig == 3
angle_hampel_sig == 3

\* Spans: not given, or a window of three frames.
SpanChoices == {None, 3}

FineValues == {4 * v : v \in (-MaxVal)..MaxVal}
CoarseValues == {0, 4 * MaxVal}

\* What a call is given: features['centroid'] (a row per frame),
\* features['orientation'], and the two spans.
HampelArgs ==
    UNION {[centroid : [1..n -> FineValues \X CoarseValues],
            orientation : [1..n -> CoarseValues],
            centroid_hampel_span : SpanChoices,
            angle_hampel_span : SpanChoices]
           : n \in 1..MaxSeries}

\* np.pad with nan by span // 2 on both sides and strided_app(padded, span, 1):
\* the window of position p, for an odd span.
strided_app(s, p, span) ==
    [k \in 1..span |->
        LET at == p - (span \div 2) + k - 1
        IN  IF at \in DOMAIN s THEN s[at] ELSE NaN]

\* The k-th smallest of the entries of w at the positions in at.
KthSmallest(w, at, k) ==
    CHOOSE v \in {w[q] : q \in at} :
        /\ Cardinality({q \in at : w[q] < v}) < k
        /\ Cardinality({q \in at : w[q] <= v}) >= k

\* np.nanmedian of one window: nan entries are left out; nan if all are nan.
nanmedian(w) ==
    LET at == {q \in DOMAIN w : w[q] # NaN}
        m == Cardinality(at)
    IN  IF m = 0 THEN NaN
        ELSE IF m % 2 = 1 THEN KthSmallest(w, at, (m + 1) \div 2)
        ELSE (KthSmallest(w, at, m \div 2) + KthSmallest(w, at, m \div 2 + 1)) \div 2

\* np.abs(a - b), nan when either is.
AbsDiff(a, b) == IF a = NaN \/ b = NaN THEN NaN ELSE Abs(a - b)

\* The filter of one series (proc.py:705-710 and 717-722): med and mad of
\* each window, vals, and the entries where vals > med + sig * mad set to
\* med.  A comparison with nan is false.
HampelSeries(s, span, sig) ==
    [p \in DOMAIN s |->
        LET vws == strided_app(s, p, span)
            med == nanmedian(vws)
            mad == nanmedian([k \in DOMAIN vws |-> AbsDiff(vws[k], med)])
            vals == AbsDiff(s[p], med)
        IN  IF vals # NaN /\ med # NaN /\ mad # NaN /\ vals > med + sig * mad
            THEN med ELSE s[p]]

Column(centroid, c) == [p \in DOMAIN centroid |-> centroid[p][c]]

\* proc.py:699-710: for i in range(1), the first coordinate alone.
FilterCentroid(centroid, span) ==
    LET x == HampelSeries(Column(centroid, 1), span, centroid_hampel_sig)
    IN  [p \in DOMAIN centroid |-> <<x[p], centroid[p][2]>>]

\* The whole of feature_hampel_filter.  padded_orientation is made inside
\* the centroid branch (proc.py:712-714), from angle_hampel_span // 2: the
\* branch raises TypeError when angle_hampel_span is None, after the
\* centroid has been changed in place; and the angle branch raises
\* UnboundLocalError when the centroid branch was not taken.
feature_hampel_filter(a) ==
    LET cOn == a.centroid_hampel_span # None /\ a.centroid_hampel_span > 0
        aOn == a.angle_hampel_span # None /\ a.angle_hampel_span > 0
        centroid == IF cOn THEN FilterCentroid(a.centroid, a.centroid_hampel_span)
                    ELSE a.centroid
    IN  IF cOn /\ a.angle_hampel_span = None
        THEN [status |-> "raised", centroid |-> centroid,
              orientation |-> a.orientation]
        ELSE IF aOn /\ ~cOn
        THEN [status |-> "raised", centroid |-> centroid,
              orientation |-> a.orientation]
        ELSE [status |-> "returned", centroid |-> centroid,
              orientation |-> IF aOn
                              THEN HampelSeries(a.orientation, a.angle_hampel_span,
                                                angle_hampel_sig)
                              ELSE a.orientation]

HampelIdle ==
    /\ hampel_args = [centroid |-> <<>>, orientation |-> <<>>,
                      centroid_hampel_span |-> None, angle_hampel_span |-> None]
    /\ hfeatures = [centroid |-> <<>>, orientation |-> <<>>]
    /\ hampel_pc = "idle"

\* One call of feature_hampel_filter.
FeatureHampelFilter ==
    /\ hampel_pc = "call"
    /\ LET r == feature_hampel_filter(hampel_args)
       IN  /\ hfeatures' = [centroid |-> r.centroid, orientation |-> r.orientation]
           /\ hampel_pc' = r.status
    /\ UNCHANGED <<hampel_args, trackVars, flipVars, roiVars, smootherVars, scalarVars, writeVars, cropVars>>

\* ------------------------------------------------------------------
\* model_smoother (proc.py:727-783)
\* A feature value is a multiple of Unit, so that the blends of the two
\* passes, each halving at most, stay integers.

\* Frames in the features handed to the smoother.
MaxSmootherFrames == 3

Unit == 2 ^ (2 * MaxSmootherFrames)

\* What the features hold for one frame: nothing, or one of three poses.
SmootherRows ==
    {[centroid |-> <<NaN, NaN>>, orientation |-> NaN],
     [centroid |-> <<0, 0>>, orientation |-> 0],
     [centroid |-> <<Unit, 0>>, orientation |-> Unit],
     [centroid |-> <<0, Unit>>, orientation |-> 0]}

\* ll: None, or the mean log-likelihood of each frame.
NoLL == [given |-> FALSE, mean |-> <<>>]
LLMeans == {-4, -3, -2}

\* clips: None, or (low, high).
ClipChoices ==
    {[given |-> FALSE, low |-> 0, high |-> 0],
     [given |-> TRUE, low |-> -4, high |-> -2],
     [given |-> TRUE, low |-> -2, high |-> -2],
     [given |-> TRUE, low |-> -2, high |-> -4]}

SmootherArgs ==
    UNION {[features : [1..n -> SmootherRows],
            ll : {NoLL} \cup [given : {TRUE}, mean : [1..n -> LLMeans]],
            clips : ClipChoices]
           : n \in 1..MaxSmootherFrames}

\* A guard that lets low = high through, to set against PassThrough.
PassThroughStrict(a) ==
    ~a.ll.given \/ ~a.clips.given \/ a.clips.low > a.clips.high

\* proc.py:740: ll is None or clips is None or clips[0] >= clips[1].
PassThrough(a) ==
    ~a.ll.given \/ ~a.clips.given \/ a.clips.low >= a.clips.high

\* proc.py:743-753, in halves: mean less min_mu over max_mu - min_mu,
\* clipped to 0..1.  A division by zero gives inf, -inf or nan, and the
\* clip of them 1, 0 or nan.
ave_ll(mean, low, high) ==
    LET num == 2 * (mean - low)
        den == high - low
        q == num \div den
    IN  IF den = 0
        THEN (IF num > 0 THEN 2 ELSE IF num < 0 THEN 0 ELSE NaN)
        ELSE IF q < 0 THEN 0 ELSE IF q > 2 THEN 2 ELSE q

\* interp1d(xvec[~nans], v[~nans], kind='nearest', fill_value='extrapolate')
\* at position p: the value at the nearest position that holds one, the
\* lower of two equally near.
NearestValue(col, p) ==
    LET valid == {q \in DOMAIN col : col[q] # NaN}
        near == CHOOSE q \in valid :
                    \A r \in valid : \/ Abs(q - p) < Abs(r - p)
                                     \/ (Abs(q - p) = Abs(r - p) /\ q <= r)
    IN  col[near]

\* One interpolation of one column (proc.py:762-765 and 767-770): interp1d
\* raises ValueError when no position holds a value; with a single one it
\* raises or not by the version of scipy.
InterpOutcomes(col) ==
    LET valid == {q \in DOMAIN col : col[q] # NaN}
        filled == [raised |-> FALSE,
                   col |-> [p \in DOMAIN col |->
                               IF col[p] # NaN THEN col[p] ELSE NearestValue(col, p)]]
        failed == [raised |-> TRUE, col |-> col]
    IN  IF valid = {} THEN {failed}
        ELSE IF Cardinality(valid) = 1 THEN {failed, filled}
        ELSE {filled}

SetCentroid(rows, c, col) ==
    [p \in DOMAIN rows |->
        [rows[p] EXCEPT !.centroid = [rows[p].centroid EXCEPT ![c] = col[p]]]]

SetOrientation(rows, col) ==
    [p \in DOMAIN rows |-> [rows[p] EXCEPT !.orientation = col[p]]]

\* proc.py:755-770 on the orientation: filled if it holds a nan.
FillOrientation(rows) ==
    LET o == [p \in DOMAIN rows |-> rows[p].orientation]
    IN  IF NaN \notin Range(o) THEN {[raised |-> FALSE, rows |-> rows]}
        ELSE {[raised |-> r.raised, rows |-> SetOrientation(rows, r.col)]
              : r \in InterpOutcomes(o)}

\* proc.py:755-765 on the centroid: if it holds a nan, both its columns
\* are interpolated in turn; then the orientation.
FillNans(rows) ==
    LET x == [p \in DOMAIN rows |-> rows[p].centroid[1]]
        y == [p \in DOMAIN rows |-> rows[p].centroid[2]]
    IN  IF NaN \notin Range(x) \cup Range(y) THEN FillOrientation(rows)
        ELSE UNION {
                IF rx.raised THEN {[raised |-> TRUE, rows |-> rows]}
                ELSE UNION {
                        IF ry.raised
                        THEN {[raised |-> TRUE, rows |-> SetCentroid(rows, 1, rx.col)]}
                        ELSE FillOrientation(
                                 SetCentroid(SetCentroid(rows, 1, rx.col), 2, ry.col))
                        : ry \in InterpOutcomes(y)}
                : rx \in InterpOutcomes(x)}

\* (1 - smoother) * a + smoother * b, smoother in halves; nan if any is.
Blend(s2, a, b) ==
    IF s2 = NaN \/ a = NaN \/ b = NaN THEN NaN
    ELSE ((2 - s2) * a + s2 * b) \div 2

BlendRow(s2, a, b) ==
    [centroid |-> <<Blend(s2, a.centroid[1], b.centroid[1]),
                    Blend(s2, a.centroid[2], b.centroid[2])>>,
     orientation |-> Blend(s2, a.orientation, b.orientation)]

\* proc.py:772-775: for i in range(2, len(ave_ll)), each frame blended
\* with the frame before it (position p is frame p - 1).
RECURSIVE ForwardPass(_, _, _)
ForwardPass(rows, s, p) ==
    IF p > Len(rows) THEN rows
    ELSE ForwardPass([rows EXCEPT ![p] = BlendRow(s[p], rows[p - 1], rows[p])],
                     s, p + 1)

\* proc.py:777-780: for i in reversed(range(len(ave_ll) - 1)), each frame
\* blended with the frame after it.
RECURSIVE BackwardPass(_, _, _)
BackwardPass(rows, s, p) ==
    IF p < 1 THEN rows
    ELSE BackwardPass([rows EXCEPT ![p] = BlendRow(s[p], rows[p + 1], rows[p])],
                      s, p - 1)

\* The whole of model_smoother: every way it can end.
model_smoother(a) ==
    IF PassThrough(a) THEN {[raised |-> FALSE, rows |-> a.features]}
    ELSE LET s == [p \in DOMAIN a.ll.mean |->
                      ave_ll(a.ll.mean[p], a.clips.low, a.clips.high)]
         IN  {IF f.raised THEN f
              ELSE [raised |-> FALSE,
                    rows |-> BackwardPass(ForwardPass(f.rows, s, 3), s,
                                          Len(f.rows) - 1)]
              : f \in FillNans(a.features)}

SmootherIdle ==
    /\ smoother_args = [features |-> <<>>, ll |-> NoLL,
                        clips |-> [given |-> FALSE, low |-> 0, high |-> 0]]
    /\ sfeatures = <<>>
    /\ smoother_pc = "idle"

\* One call of model_smoother.
ModelSmoother ==
    /\ smoother_pc = "call"
    /\ \E r \in model_smoother(smoother_args) :
           /\ sfeatures' = r.rows
           /\ smoother_pc' = IF r.raised THEN "raised" ELSE "returned"
    /\ UNCHANGED <<smoother_args, trackVars, flipVars, roiVars, hampelVars, scalarVars, writeVars, cropVars>>

\* ------------------------------------------------------------------
\* compute_scalars (proc.py:593-681): the centroid, height and velocity
\* channels.  A speed is held as its square: np.hypot and np.sqrt of a sum
\* of squares are one-to-one on it, and 0 exactly where it is 0.

\* Frames handed to compute_scalars.
MaxScalarFrames == 3

\* A pixel coordinate of the centroid.
PxChoices == {0, 3}

\* The centroid of a frame: missing, or a pair of coordinates.
CentroidChoices == {<<NaN, NaN>>} \cup (PxChoices \X PxChoices)

\* What a frame holds between min_height and max_height: no pixel (0), or
\* pixels of this mean height.
HeightChoices == {0, 10, 12}

ScalarArgs ==
    UNION {[centroid : [1..n -> CentroidChoices],
            height : [1..n -> HeightChoices]]
           : n \in 1..MaxScalarFrames}

\* convert_pxs_to_mm on one coordinate: the offset from the optical centre
\* scaled by depth over focal length (here centre 1, scale 2).
convert_pxs_to_mm(px) == IF px = NaN THEN NaN ELSE 2 * (px - 1)

\* proc.py:659-662: height_ave_mm is 0 where no pixel is masked, the mean of
\* the masked pixels elsewhere.
height_ave_mm(a) == [p \in DOMAIN a.height |-> a.height[p]]

\* A series behind a 0, to set against PrependFirst.
PrependZero(s) == <<0>> \o s

\* np.concatenate((s[:1], s)): the series behind its first entry.
PrependFirst(s) == <<s[1]>> \o s

Minus(a, b) == IF a = NaN \/ b = NaN THEN NaN ELSE a - b

\* np.diff(np.concatenate((s[:1], s))) (proc.py:664-666 and 672-673).
Velocity(s) ==
    LET c == PrependFirst(s)
    IN  [p \in DOMAIN s |-> Minus(c[p + 1], c[p])]

\* The square of np.hypot(a, b); nan if either is.
Hypot2(a, b) == IF a = NaN \/ b = NaN THEN NaN ELSE a * a + b * b

\* The square of np.sqrt(a^2 + b^2 + c^2); nan if any is.
Norm2(a, b, c) ==
    IF a = NaN \/ b = NaN \/ c = NaN THEN NaN ELSE a * a + b * b + c * c

\* The whole of compute_scalars on these channels.
compute_scalars(a) ==
    LET x_px == [p \in DOMAIN a.centroid |-> a.centroid[p][1]]
        y_px == [p \in DOMAIN a.centroid |-> a.centroid[p][2]]
        x_mm == [p \in DOMAIN a.centroid |-> convert_pxs_to_mm(a.centroid[p][1])]
        y_mm == [p \in DOMAIN a.centroid |-> convert_pxs_to_mm(a.centroid[p][2])]
        h == height_ave_mm(a)
        vx == Velocity(x_px)
        vy == Velocity(y_px)
        vz == Velocity(h)
        wx == Velocity(x_mm)
        wy == Velocity(y_mm)
    IN  [centroid_x_px |-> x_px, centroid_y_px |-> y_px,
         centroid_x_mm |-> x_mm, centroid_y_mm |-> y_mm,
         height_ave_mm |-> h,
         velocity_2d_px |-> [p \in DOMAIN vx |-> Hypot2(vx[p], vy[p])],
         velocity_3d_px |-> [p \in DOMAIN vx |-> Norm2(vx[p], vy[p], vz[p])],
         velocity_2d_mm |-> [p \in DOMAIN wx |-> Hypot2(wx[p], wy[p])],
         velocity_3d_mm |-> [p \in DOMAIN wx |-> Norm2(wx[p], wy[p], vz[p])]]

NoScalars ==
    [centroid_x_px |-> <<>>, centroid_y_px |-> <<>>, centroid_x_mm |-> <<>>,
     centroid_y_mm |-> <<>>, height_ave_mm |-> <<>>, velocity_2d_px |-> <<>>,
     velocity_3d_px |-> <<>>, velocity_2d_mm |-> <<>>, velocity_3d_mm |-> <<>>]

ScalarsIdle ==
    /\ scalar_args = [centroid |-> <<>>, height |-> <<>>]
    /\ scalars = NoScalars
    /\ scalar_pc = "idle"

\* One call of compute_scalars.
ComputeScalars ==
    /\ scalar_pc = "call"
    /\ scalars' = compute_scalars(scalar_args)
    /\ scalar_pc' = "returned"
    /\ UNCHANGED <<scalar_args, trackVars, flipVars, roiVars, hampelVars, smootherVars, writeVars, cropVars>>

\* ------------------------------------------------------------------
\* process_extract_batches and write_extracted_chunk_to_h5: the frames
\* written for each batch.

\* Batches in frame_batches, frames per batch and chunk_overlap at most.
MaxWriteBatches == 3
MaxWriteFrames == 3
MaxOverlap == 2

\* range(a, b): the frame indices a, ..., b - 1.
range(a, b) == [k \in 1..(b - a) |-> a + k - 1]

\* Lists of batches: each a range of frame indices, the first starting at
\* frame 0, a later one starting no earlier than the batch before it and
\* no later than the frame after its end.
RECURSIVE BatchLists(_)
BatchLists(n) ==
    IF n = 1 THEN {<<range(0, len)>> : len \in 1..MaxWriteFrames}
    ELSE LET shorter == BatchLists(n - 1)
         IN  UNION {{Append(bs, range(a, a + len)) :
                        a \in bs[n - 1][1]..(bs[n - 1][Len(bs[n - 1])] + 1),
                        len \in 1..MaxWriteFrames} : bs \in shorter}

WriteArgs ==
    [frame_batches : UNION {BatchLists(n) : n \in 1..MaxWriteBatches},
     first_frame_idx : 0..1,
     chunk_overlap : 0..MaxOverlap,
     use_tracking_model : BOOLEAN,
     h5_open : BOOLEAN]

\* s[off:]
SliceFrom(s, off) == IF off >= Len(s) THEN <<>> ELSE SubSeq(s, off + 1, Len(s))

\* extract_chunk: one result per frame of the chunk, in the chunk's order;
\* a result is identified by the raw frame it was computed from.
extract_chunk(chunk_frames) == [j \in DOMAIN chunk_frames |-> [raw |-> chunk_frames[j]]]

\* The offset applied to every batch, the first included.
offsetEveryBatch(idx, chunk_overlap) == chunk_overlap

\* extract.py:106-109.
offset(idx, chunk_overlap) == IF idx > 0 THEN chunk_overlap ELSE 0

\* extract.py:118-119: results['parameters']['mean'][-(chunk_overlap + 1)]
\* raises IndexError when the batch has fewer entries than that.
TrackingUpdateRaises(a, results) ==
    a.use_tracking_model /\ a.chunk_overlap + 1 > Len(results)

\* write_extracted_chunk_to_h5: dataset[frame_range] = values[offset:] for
\* the scalars, frames, masks and flips alike; one write per index.
write_extracted_chunk_to_h5(h5, results, frame_range, off, idx) ==
    LET values == SliceFrom(results, off)
    IN  h5 \o [j \in DOMAIN frame_range |->
                  [index |-> frame_range[j], value |-> values[j], batch |-> idx]]

\* write_frames_preview: results['chunk'][offset:] under the frame numbers
\* frame_range + first_frame_idx.
write_frames_preview(movie, results, frame_range, off, first_frame_idx, idx) ==
    LET values == SliceFrom(results, off)
    IN  movie \o [j \in DOMAIN frame_range |->
                     [index |-> frame_range[j] + first_frame_idx,
                      value |-> values[j], batch |-> idx]]

WriteIdle ==
    /\ write_args = [frame_batches |-> <<>>, first_frame_idx |-> 0, chunk_overlap |-> 0,
                     use_tracking_model |-> FALSE, h5_open |-> FALSE]
    /\ batch_i = 0
    /\ h5_file = <<>>
    /\ output_movie = <<>>
    /\ write_pc = "idle"

\* One pass of the loop of process_extract_batches (extract.py:91-142).
ProcessExtractBatch ==
    /\ write_pc = "loop"
    /\ batch_i < Len(write_args.frame_batches)
    /\ LET a == write_args
           whole == a.frame_batches[batch_i + 1]
           chunk_frames == [j \in DOMAIN whole |-> whole[j] + a.first_frame_idx]
           results == extract_chunk(chunk_frames)
           off == offset(batch_i, a.chunk_overlap)
           frame_range == SliceFrom(whole, off)
       IN  /\ ~TrackingUpdateRaises(a, results)
           /\ h5_file' = IF a.h5_open
                         THEN write_extracted_chunk_to_h5(h5_file, results, frame_range,
                                                          off, batch_i)
                         ELSE h5_file
           /\ output_movie' = write_frames_preview(output_movie, results, frame_range, off,
                                                   a.first_frame_idx, batch_i)
    /\ batch_i' = batch_i + 1
    /\ UNCHANGED <<write_args, write_pc>>
    /\ UNCHANGED <<trackVars, flipVars, roiVars, hampelVars, smootherVars, scalarVars, cropVars>>

\* The pass that fails in the tracking-model update (extract.py:118).
ProcessExtractBatchRaises ==
    /\ write_pc = "loop"
    /\ batch_i < Len(write_args.frame_batches)
    /\ LET a == write_args
           whole == a.frame_batches[batch_i + 1]
       IN  TrackingUpdateRaises(a, extract_chunk(whole))
    /\ write_pc' = "raised"
    /\ UNCHANGED <<write_args, batch_i, h5_file, output_movie>>
    /\ UNCHANGED <<trackVars, flipVars, roiVars, hampelVars, smootherVars, scalarVars, cropVars>>

\* The loop is over (extract.py:144-149).
ReturnConfigData ==
    /\ write_pc = "loop"
    /\ batch_i = Len(write_args.frame_batches)
    /\ write_pc' = "returned"
    /\ UNCHANGED <<write_args, batch_i, h5_file, output_movie>>
    /\ UNCHANGED <<trackVars, flipVars, roiVars, hampelVars, smootherVars, scalarVars, cropVars>>

\* ------------------------------------------------------------------
\* crop_and_rotate_frames: the window cut around the centroid.

\* Frames per call, rows and columns of a frame, and the sides of crop_size.
MaxCropFrames == 2
FrameRows == 3
FrameCols == 3
MinCrop == 2
MaxCrop == 4
\* A coordinate far outside the frame.
FarOff == 12

\* Centroid coordinates (x, y): missing, inside the frame or far outside.
CropCoords == {NaN, -FarOff, 0, 2, FarOff}

CropArgs ==
    [shape : {<<FrameRows, FrameCols>>},
     centroid : UNION {[1..n -> CropCoords \X CropCoords] : n \in 1..MaxCropFrames},
     crop_size : (MinCrop..MaxCrop) \X (MinCrop..MaxCrop)]

\* proc.py:559: win = (crop_size[0] // 2, crop_size[1] // 2 + 1).
win(crop_size) == <<crop_size[1] \div 2, crop_size[2] \div 2 + 1>>

\* proc.py:560: border = (crop_size[1], crop_size[1], crop_size[0],
\* crop_size[0]), handed to cv2.copyMakeBorder as top, bottom, left, right.
border(crop_size) == <<crop_size[2], crop_size[2], crop_size[1], crop_size[1]>>

\* The shape of use_frame (proc.py:568): the frame with its border.
PaddedShape(shape, crop_size) ==
    LET b == border(crop_size)
    IN  <<shape[1] + b[1] + b[2], shape[2] + b[3] + b[4]>>

\* np.arange(c - win[0], c + win[1]).astype('int16') for a whole c.
arange(lo, hi) == [k \in 1..(hi - lo) |-> lo + k - 1]

\* proc.py:571-577: the row and column indices of the window.
rr(centroid, crop_size) ==
    LET w == win(crop_size)
        r == arange(centroid[2] - w[1], centroid[2] + w[2])
    IN  [k \in DOMAIN r |-> r[k] + crop_size[1]]

cc(centroid, crop_size) ==
    LET w == win(crop_size)
        c == arange(centroid[1] - w[1], centroid[1] + w[2])
    IN  [k \in DOMAIN c |-> c[k] + crop_size[2]]

\* proc.py:565: a missing centroid.
CentroidMissing(centroid) == centroid[1] = NaN \/ centroid[2] = NaN

\* proc.py:580-582: the window leaves the padded frame.
OutOfBounds(r, c, padded) ==
    \/ \E k \in DOMAIN r : r[k] >= padded[1] \/ r[k] < 1
    \/ \E k \in DOMAIN c : c[k] >= padded[2] \/ c[k] < 1

\* The all-zero canvas of proc.py:556.
ZeroCanvas == [zero |-> TRUE]

\* proc.py:587: use_frame[rr[0]:rr[-1], cc[0]:cc[-1]], as its first row and
\* column in the padded frame and its numbers of rows and columns.
Window(r, c) ==
    [zero |-> FALSE, row0 |-> r[1], nrows |-> r[Len(r)] - r[1],
     col0 |-> c[1], ncols |-> c[Len(c)] - c[1]]

\* proc.py:587-588: cv2.warpAffine with dsize (crop_size[0], crop_size[1])
\* returns crop_size[1] rows of crop_size[0] columns; storing it in
\* cropped_frames[i], of shape crop_size, raises unless the shapes agree.
StoreRaises(crop_size) == <<crop_size[2], crop_size[1]>> # crop_size

\* What one pass of the loop leaves in cropped_frames[i].
CropOf(a, idx) ==
    LET centroid == a.centroid[idx]
        r == rr(centroid, a.crop_size)
        c == cc(centroid, a.crop_size)
    IN  IF CentroidMissing(centroid) THEN ZeroCanvas
        ELSE IF OutOfBounds(r, c, PaddedShape(a.shape, a.crop_size)) THEN ZeroCanvas
        ELSE Window(r, c)

CropIdle ==
    /\ crop_args = [shape |-> <<0, 0>>, centroid |-> <<>>, crop_size |-> <<0, 0>>]
    /\ crop_i = 0
    /\ cropped_frames = <<>>
    /\ crop_pc = "idle"

\* One pass of the loop of crop_and_rotate_frames (proc.py:563-588).
CropFrame ==
    /\ crop_pc = "loop"
    /\ crop_i < Len(crop_args.centroid)
    /\ LET cut == CropOf(crop_args, crop_i + 1)
       IN  /\ cut.zero \/ ~StoreRaises(crop_args.crop_size)
           /\ cropped_frames' = [cropped_frames EXCEPT ![crop_i + 1] = cut]
    /\ crop_i' = crop_i + 1
    /\ UNCHANGED <<crop_args, crop_pc>>
    /\ UNCHANGED <<trackVars, flipVars, roiVars, hampelVars, smootherVars, scalarVars, writeVars>>

\* The pass whose store fails (proc.py:587).
CropFrameRaises ==
    /\ crop_pc = "loop"
    /\ crop_i < Len(crop_args.centroid)
    /\ LET cut == CropOf(crop_args, crop_i + 1)
       IN  ~cut.zero /\ StoreRaises(crop_args.crop_size)
    /\ crop_pc' = "raised"
    /\ UNCHANGED <<crop_args, crop_i, cropped_frames>>
    /\ UNCHANGED <<trackVars, flipVars, roiVars, hampelVars, smootherVars, scalarVars, writeVars>>

\* proc.py:590.
ReturnCropped ==
    /\ crop_pc = "loop"
    /\ crop_i = Len(crop_args.centroid)
    /\ crop_pc' = "returned"
    /\ UNCHANGED <<crop_args, crop_i, cropped_frames>>
    /\ UNCHANGED <<trackVars, flipVars, roiVars, hampelVars, smootherVars, scalarVars, writeVars>>

TrackIdle ==
    /\ number_of_mice = 1
    /\ use_cc = FALSE
    /\ nframes = 0
    /\ i = 0
    /\ first_valid_frame = FALSE
    /\ mice_last_centroids = <<>>
    /\ mice_last_orientations = <<>>
    /\ frame = NoFrame
    /\ features = MissingRow(1)
    /\ pc = "idle"
    /\ batch = 0
    /\ carried = NoCarry

\* ------------------------------------------------------------------
\* The specifications, one per operation.

InitTrack ==
    /\ number_of_mice \in MiceChoices
    /\ use_cc \in BOOLEAN
    /\ nframes \in 1..MaxFrames
    /\ batch = 0
    /\ carried = NoCarry
    /\ CallStart(number_of_mice)
    /\ FlipsIdle /\ RoiIdle /\ HampelIdle /\ SmootherIdle /\ ScalarsIdle /\ WriteIdle /\ CropIdle

NextTrack == ReadFrame \/ ProcessFrame \/ ReturnFeatures

SpecTrack == InitTrack /\ [][NextTrack]_vars

InitBatches ==
    /\ number_of_mice = 2
    /\ use_cc = FALSE
    /\ nframes \in 1..MaxBatchFrames
    /\ batch = 0
    /\ carried = NoCarry
    /\ CallStart(number_of_mice)
    /\ FlipsIdle /\ RoiIdle /\ HampelIdle /\ SmootherIdle /\ ScalarsIdle /\ WriteIdle /\ CropIdle

NextBatches == ReadFrame \/ ProcessFrame \/ ReturnFeatures \/ NextBatch

SpecBatches == InitBatches /\ [][NextBatches]_vars

InitFlips ==
    /\ flip_args \in FlipArgs
    /\ flips = <<>>
    /\ printed = {}
    /\ flip_pc = "call"
    /\ TrackIdle /\ RoiIdle /\ HampelIdle /\ SmootherIdle /\ ScalarsIdle /\ WriteIdle /\ CropIdle

NextFlips == GetFlips

SpecFlips == InitFlips /\ [][NextFlips]_vars

InitRoi ==
    /\ roi_args \in RoiArgs
    /\ rois = <<>>
    /\ bboxes = <<>>
    /\ roi_pc = "call"
    /\ TrackIdle /\ FlipsIdle /\ HampelIdle /\ SmootherIdle /\ ScalarsIdle /\ WriteIdle /\ CropIdle

NextRoi == GetRoi

SpecRoi == InitRoi /\ [][NextRoi]_vars

InitHampel ==
    /\ hampel_args \in HampelArgs
    /\ hfeatures = [centroid |-> hampel_args.centroid,
                    orientation |-> hampel_args.orientation]
    /\ hampel_pc = "call"
    /\ TrackIdle /\ FlipsIdle /\ RoiIdle /\ SmootherIdle /\ ScalarsIdle /\ WriteIdle /\ CropIdle

NextHampel == FeatureHampelFilter

SpecHampel == InitHampel /\ [][NextHampel]_vars

InitSmoother ==
    /\ smoother_args \in SmootherArgs
    /\ sfeatures = smoother_args.features
    /\ smoother_pc = "call"
    /\ TrackIdle /\ FlipsIdle /\ RoiIdle /\ HampelIdle /\ ScalarsIdle /\ WriteIdle /\ CropIdle

NextSmoother == ModelSmoother

SpecSmoother == InitSmoother /\ [][NextSmoother]_vars

InitScalars ==
    /\ scalar_args \in ScalarArgs
    /\ scalars = NoScalars
    /\ scalar_pc = "call"
    /\ TrackIdle /\ FlipsIdle /\ RoiIdle /\ HampelIdle /\ SmootherIdle /\ WriteIdle /\ CropIdle

NextScalars == ComputeScalars

SpecScalars == InitScalars /\ [][NextScalars]_vars

\* process_extract_batches over a list of batches, up to its return.
InitWrite ==
    /\ write_args \in WriteArgs
    /\ batch_i = 0
    /\ h5_file = <<>>
    /\ output_movie = <<>>
    /\ write_pc = "loop"
    /\ TrackIdle /\ FlipsIdle /\ RoiIdle /\ HampelIdle /\ SmootherIdle /\ ScalarsIdle /\ CropIdle

NextWrite == ProcessExtractBatch \/ ProcessExtractBatchRaises \/ ReturnConfigData

SpecWrite == InitWrite /\ [][NextWrite]_vars

\* crop_and_rotate_frames over the frames of one call.
InitCrop ==
    /\ crop_args \in CropArgs
    /\ crop_i = 0
    /\ cropped_frames = [k \in DOMAIN crop_args.centroid |-> ZeroCanvas]
    /\ crop_pc = "loop"
    /\ TrackIdle /\ FlipsIdle /\ RoiIdle /\ HampelIdle /\ SmootherIdle /\ ScalarsIdle /\ WriteIdle

NextCrop == CropFrame \/ CropFrameRaises \/ ReturnCropped

SpecCrop == InitCrop /\ [][NextCrop]_vars

\* ------------------------------------------------------------------
\* Properties of get_frame_features

\* The identities whose record of the current frame holds values.
Recorded(row, n) == {id \in Ids(n) : ~IsMissing(row[id])}

PositiveAreas(fr) == \A k \in DOMAIN fr.cnts : fr.cnts[k].m00 > 0

Regular(cs) == \A k \in DOMAIN cs : NaN \notin Range(cs[k])

\* C1: with number_of_mice >= 2, whatever frame is processed (its contours
\* all of positive area), the identities that receive a feature record for
\* it are none or all of 0..number_of_mice-1, also when the greedy pass
\* yields two duplicated identities.
C1_AssignmentIsBijection ==
    [][(pc = "body" /\ number_of_mice >= 2 /\ PositiveAreas(frame))
          => LET got == Recorded(features', number_of_mice)
             IN  got = {} \/ got = Ids(number_of_mice)]_vars

\* C2: the first valid frame of a chunk after the first is matched against
\* the last centroids and orientations the previous chunk ended with, as a
\* later frame of one call would be.
C2_CarriedStateUsed ==
    [][(/\ pc = "body" /\ batch >= 1 /\ ~first_valid_frame
        /\ carried.valid /\ Regular(carried.centroids)
        /\ NaN \notin Range(carried.orientations)
        /\ Len(frame.cnts) >= number_of_mice /\ PositiveAreas(frame))
          => \E out \in LaterFrameMulti(frame.cnts,
                                        ArgPartition(frame.cnts, number_of_mice),
                                        carried.centroids, carried.orientations,
                                        number_of_mice) :
                /\ ~out.raised
                /\ features' = out.features
                /\ mice_last_centroids' = out.centroids
                /\ mice_last_orientations' = out.orientations]_vars

\* C3: a frame with fewer than number_of_mice contours leaves every
\* identity's centroid, orientation and axis_length missing for that frame,
\* and leaves the last centroids, the last orientations and the
\* first-valid-frame flag as they were.
C3_InvalidFrameChangesNothing ==
    [][(/\ pc = "body"
        /\ ~(use_cc /\ ~frame.cc)
        /\ Len(frame.cnts) < number_of_mice)
          => (/\ \A id \in Ids(number_of_mice) : IsMissing(features'[id])
              /\ mice_last_centroids' = mice_last_centroids
              /\ mice_last_orientations' = mice_last_orientations
              /\ first_valid_frame' = first_valid_frame
              /\ pc' = "loop")]_vars

\* C3, its case reached: two frames processed, the tracker initialised by
\* the first and holding regular centroids, the second one short of
\* contours and so recorded as missing for each of several identities.
C3_Witness ==
    /\ pc = "loop" /\ i = 2
    /\ number_of_mice >= 2
    /\ first_valid_frame
    /\ Regular(mice_last_centroids)
    /\ \A id \in Ids(number_of_mice) : IsMissing(features[id])

\* C4: the run never ends in an exception, whatever the frames hold.
C4_NeverRaises == pc # "raised"

Detectable(fr) == \E k \in DOMAIN fr.cnts : fr.cnts[k].m00 > 0

\* C5: with one mouse, a frame holding a contour of positive area, all
\* frames before it having held one too, gets a centroid, an orientation
\* and axis lengths (stated for the first two frames of a sequence).
C5_DetectableBlobRecorded ==
    [][(/\ pc = "body" /\ number_of_mice = 1
        /\ Detectable(frame)
        /\ \/ i = 0
           \/ (i = 1 /\ first_valid_frame /\ Regular(mice_last_centroids)))
          => ~HasMissing(features'[0])]_vars

\* ------------------------------------------------------------------
\* Properties of get_flips

\* C6: when the classifier rejects the frames for their size, the returned
\* array is False for every frame, for either order of the classes and
\* with or without smoothing.
C6_MismatchMeansNoFlips ==
    (flip_pc = "returned" /\ ~flip_args.fits)
        => \A f \in DOMAIN flips : flips[f] = FALSE

C8_NoComponentReturnsEmpty ==
    (roi_pc \in {"returned", "raised"} /\ roi_args.region_properties = <<>>)
        => (roi_pc = "returned" /\ rois = <<>>)

\* The combined score of component r as the ranking is described: its
\* place by area among the components counted from the largest, by extent
\* from the largest and by distance from the smallest (components level
\* with it counted before it), weighted and added.
C9_Score(r) ==
    LET props == roi_args.region_properties
        w == roi_args.bg_roi_weights
    IN  w[1] * Cardinality({j \in DOMAIN props : props[j].area >= props[r].area})
        + w[2] * Cardinality({j \in DOMAIN props : props[j].extent >= props[r].extent})
        + w[3] * Cardinality({j \in DOMAIN props : props[j].dist <= props[r].dist})

\* C9: the returned list is ordered best first: of two returned ROIs the
\* earlier has a combined weighted rank no greater than the later.
C9_OrderedBestFirst ==
    roi_pc = "returned"
        => \A a, b \in DOMAIN rois :
              a < b => C9_Score(rois[a]) <= C9_Score(rois[b])

\* C9, its case reached: a list of three ROIs has been returned in which
\* strictly better ones come first and the order is not the labelling's.
C9_Witness ==
    /\ roi_pc = "returned"
    /\ Len(rois) = 3
    /\ rois[1] > rois[2]
    /\ C9_Score(rois[1]) < C9_Score(rois[2])
    /\ C9_Score(rois[2]) < C9_Score(rois[3])

\* The candidates of the call that are missing from the returned list.
C21_Removed == DOMAIN roi_args.region_properties \ Range(rois)

\* C21: a call with overlap_roi and at least one candidate that returned
\* has removed exactly one candidate; that candidate's intersection with
\* overlap_roi is at least that of every candidate kept; the candidates
\* kept are distinct and still ordered best first; the i-th bounding box
\* is that of the i-th mask.
C21_MostOverlappingRemoved ==
    (/\ roi_pc = "returned"
     /\ roi_args.overlap_roi
     /\ Len(roi_args.region_properties) >= 1) =>
        /\ Len(rois) = Len(roi_args.region_properties) - 1
        /\ Injective(rois)
        /\ Range(rois) \subseteq DOMAIN roi_args.region_properties
        /\ Cardinality(C21_Removed) = 1
        /\ \A d \in C21_Removed : \A k \in DOMAIN rois :
              roi_args.overlap[d] >= roi_args.overlap[rois[k]]
        /\ \A a, b \in DOMAIN rois :
              a < b => C9_Score(rois[a]) <= C9_Score(rois[b])
        /\ DOMAIN bboxes = DOMAIN rois
        /\ \A k \in DOMAIN rois : bboxes[k] = BBoxOf(rois[k])

\* C21, its case reached: of three candidates with distinct scores the one
\* removed overlaps overlap_roi, a kept one does not, and the one removed
\* was not the best-ranked.
C21_Witness ==
    /\ roi_pc = "returned"
    /\ roi_args.overlap_roi
    /\ Len(roi_args.region_properties) = 3
    /\ Len(rois) = 2
    /\ C9_Score(rois[1]) < C9_Score(rois[2])
    /\ \E d \in C21_Removed :
          /\ C9_Score(rois[1]) < C9_Score(d)
          /\ roi_args.overlap[d] = 1
          /\ roi_args.overlap[rois[1]] = 0

\* ------------------------------------------------------------------
\* Properties of feature_hampel_filter

\* The filter as described: the entry is the window's median if it lies
\* more than sig times the MAD from the median, and is itself otherwise.
C10_Expected(s, p, span, sig) ==
    LET w == [k \in 1..span |->
                 LET at == p - (span \div 2) + k - 1
                 IN  IF at \in DOMAIN s THEN s[at] ELSE NaN]
        med == nanmedian(w)
        mad == nanmedian([k \in DOMAIN w |-> AbsDiff(w[k], med)])
    IN  IF Abs(s[p] - med) > sig * mad THEN med ELSE s[p]

\* C10: in each series the filter goes over, an entry is replaced by the
\* median of its window if and only if it lies more than sig times the
\* window's MAD from that median; every other entry stays as it was.
C10_ReplacedIffOutlier ==
    (/\ hampel_pc = "returned"
     /\ hampel_args.centroid_hampel_span > 0
     /\ hampel_args.angle_hampel_span > 0)
        => \A p \in DOMAIN hampel_args.orientation :
              /\ hfeatures.centroid[p][1] =
                    C10_Expected(Column(hampel_args.centroid, 1), p,
                                 hampel_args.centroid_hampel_span,
                                 centroid_hampel_sig)
              /\ hfeatures.orientation[p] =
                    C10_Expected(hampel_args.orientation, p,
                                 hampel_args.angle_hampel_span,
                                 angle_hampel_sig)

\* Whether no entry of s lies more than sig times its window's MAD from
\* its window's median.
C11_Smooth(s, span, sig) ==
    \A p \in DOMAIN s : C10_Expected(s, p, span, sig) = s[p]

\* C11: a series that is smooth already comes out as it went in: when no
\* entry of either centroid coordinate or of the orientation lies more
\* than sig times the local MAD from the local median, the features
\* returned equal the features given, at the ends and for negative values
\* too.
C11_SmoothSeriesUnchanged ==
    (/\ hampel_pc = "returned"
     /\ hampel_args.centroid_hampel_span > 0
     /\ hampel_args.angle_hampel_span > 0
     /\ C11_Smooth(Column(hampel_args.centroid, 1),
                   hampel_args.centroid_hampel_span, centroid_hampel_sig)
     /\ C11_Smooth(Column(hampel_args.centroid, 2),
                   hampel_args.centroid_hampel_span, centroid_hampel_sig)
     /\ C11_Smooth(hampel_args.orientation,
                   hampel_args.angle_hampel_span, angle_hampel_sig))
        => (/\ hfeatures.centroid = hampel_args.centroid
            /\ hfeatures.orientation = hampel_args.orientation)

\* ------------------------------------------------------------------
\* Properties of model_smoother

\* C12: with no ll, or with clips whose low is not below its high, the
\* features returned equal the features given in every channel; missing
\* values are still missing.
C12_PassThrough ==
    (/\ smoother_pc \in {"returned", "raised"}
     /\ \/ ~smoother_args.ll.given
        \/ (smoother_args.clips.given
            /\ smoother_args.clips.low >= smoother_args.clips.high))
        => (smoother_pc = "returned" /\ sfeatures = smoother_args.features)

\* C12, its case reached: a call with ll given and low = high has
\* returned features of three frames that hold a gap beside values.
C12_Witness ==
    /\ smoother_pc = "returned"
    /\ smoother_args.ll.given
    /\ smoother_args.clips.given
    /\ smoother_args.clips.low = smoother_args.clips.high
    /\ Len(sfeatures) = 3
    /\ sfeatures[1].orientation = NaN
    /\ sfeatures[2].orientation = Unit
    /\ sfeatures[3].orientation = 0

\* ------------------------------------------------------------------
\* Properties of compute_scalars

\* C13: when the centroid of frame 0 is defined, the velocity at frame 0
\* is exactly 0 in each of velocity_2d_px, velocity_3d_px, velocity_2d_mm
\* and velocity_3d_mm.
C13_FirstVelocityZero ==
    (scalar_pc = "returned" /\ NaN \notin Range(scalar_args.centroid[1]))
        => (/\ scalars.velocity_2d_px[1] = 0
            /\ scalars.velocity_3d_px[1] = 0
            /\ scalars.velocity_2d_mm[1] = 0
            /\ scalars.velocity_3d_mm[1] = 0)

\* C13, its case reached: scalars returned for a mouse that starts away
\* from the origin at a height above 0 and has moved by the next frame.
C13_Witness ==
    /\ scalar_pc = "returned"
    /\ Len(scalar_args.centroid) >= 2
    /\ scalar_args.centroid[1] = <<3, 3>>
    /\ scalar_args.height[1] > 0
    /\ scalars.velocity_2d_px[2] # NaN
    /\ scalars.velocity_2d_px[2] > 0
    /\ scalars.velocity_3d_mm[2] > scalars.velocity_2d_mm[2]

\* ------------------------------------------------------------------
\* Properties of the conflict resolution of get_frame_features

\* The features of the blobs selected in the frame taken up.
BodyFeats ==
    LET sel == ArgPartition(frame.cnts, number_of_mice)
    IN  [k \in Ids(number_of_mice) |-> im_moment_features(frame.cnts[sel[k]])]

\* Whether the frame taken up goes through the matching of proc.py:476-529.
BodyMatches ==
    /\ pc = "body"
    /\ number_of_mice >= 2
    /\ first_valid_frame
    /\ ~(use_cc /\ ~frame.cc)
    /\ Len(frame.cnts) >= number_of_mice
    /\ ~NormRaises(mice_last_centroids, BodyFeats, number_of_mice)

\* The pools free_ids can be when group g of dups comes to be resolved.
RECURSIVE PoolsBefore(_, _, _, _, _)
PoolsBefore(dups, g, assigned, free_ids, ods) ==
    IF g = 1 THEN {free_ids}
    ELSE UNION {
            LET culprits == Culprits(assigned, dups[g - 1])
                cost == [l \in 1..Len(culprits) |->
                            [m \in 1..Len(pool) |-> -ods[culprits[l]][pool[m]]]]
            IN  {FreeIdsAfterGroup(pool,
                     [l \in 1..Len(culprits) |-> IF a[l] = 0 THEN 1 ELSE a[l]])
                 : a \in linear_sum_assignment(cost, Len(culprits), Len(pool))}
            : pool \in PoolsBefore(dups, g - 1, assigned, free_ids, ods)}

\* C14: on every valid frame that is matched, each duplicated identity has
\* no more culprits than there are free identities in the pool when its
\* group is resolved.
C14_PoolNeverExhausted ==
    BodyMatches =>
        LET feats == BodyFeats
            greedy == GreedyIds(feats, mice_last_centroids, number_of_mice)
            dups == DuplicatedIds(greedy, number_of_mice)
            ods == OrientationScores(feats, mice_last_orientations, number_of_mice)
        IN  \A g \in DOMAIN dups :
                \A pool \in PoolsBefore(dups, g, greedy,
                                         FreeIds(greedy, number_of_mice), ods) :
                    Len(Culprits(greedy, dups[g])) <= Len(pool)

\* C14, its case reached: with four mice a frame whose greedy pass gave two
\* duplicated identities has been resolved and written (two identities
\* hold a record, two hold none).
C14_Witness ==
    /\ pc = "loop"
    /\ number_of_mice = 4
    /\ i = 2
    /\ first_valid_frame
    /\ Cardinality(Recorded(features, number_of_mice)) = 2

\* C15: with one mouse, every frame that holds a contour is recorded with
\* the features of a contour of the largest area in it, the first valid
\* frame and the later ones alike.
C15_LargestContourRecorded ==
    [][(/\ pc = "body" /\ number_of_mice = 1
        /\ ~(use_cc /\ ~frame.cc)
        /\ Len(frame.cnts) >= 1)
          => \E k \in DOMAIN frame.cnts :
                /\ \A o \in DOMAIN frame.cnts : frame.cnts[o].m00 <= frame.cnts[k].m00
                /\ features'[0] = im_moment_features(frame.cnts[k])]_vars

\* ------------------------------------------------------------------
\* Further properties of feature_hampel_filter

\* C16: the second centroid coordinate is repaired as the first is: what
\* is returned for it is what the repair of a series, with the windows of
\* that series, makes of it.
C16_BothCoordinatesRepaired ==
    (hampel_pc = "returned" /\ hampel_args.centroid_hampel_span > 0)
        => /\ Column(hfeatures.centroid, 1) =
                HampelSeries(Column(hampel_args.centroid, 1),
                             hampel_args.centroid_hampel_span, centroid_hampel_sig)
           /\ Column(hfeatures.centroid, 2) =
                HampelSeries(Column(hampel_args.centroid, 2),
                             hampel_args.centroid_hampel_span, centroid_hampel_sig)

\* C17: each filter is switched by its own span: with only the angle span
\* given the call returns the orientation filtered and the centroid as it
\* was, with only the centroid span given it returns the centroid filtered
\* and the orientation as it was; neither call raises.
C17_SpansIndependent ==
    /\ (/\ hampel_pc \in {"returned", "raised"}
        /\ hampel_args.centroid_hampel_span = None
        /\ hampel_args.angle_hampel_span > 0)
          => (/\ hampel_pc = "returned"
              /\ hfeatures.centroid = hampel_args.centroid
              /\ hfeatures.orientation =
                    HampelSeries(hampel_args.orientation,
                                 hampel_args.angle_hampel_span, angle_hampel_sig))
    /\ (/\ hampel_pc \in {"returned", "raised"}
        /\ hampel_args.centroid_hampel_span > 0
        /\ hampel_args.angle_hampel_span = None)
          => (/\ hampel_pc = "returned"
              /\ hfeatures.centroid =
                    FilterCentroid(hampel_args.centroid,
                                   hampel_args.centroid_hampel_span)
              /\ hfeatures.orientation = hampel_args.orientation)

\* ------------------------------------------------------------------
\* Further properties of the conflict resolution

\* The identity a blob with these features claims: the lowest of those
\* whose last centroid is nearest to the blob's.
C18_Claimed(f) ==
    LET d == [id \in Ids(number_of_mice) |-> Dist2(mice_last_centroids[id], f.centroid)]
    IN  CHOOSE id \in Ids(number_of_mice) :
            \A o \in Ids(number_of_mice) : d[id] < d[o] \/ (d[id] = d[o] /\ id <= o)

\* The blobs that share the identity they claim with another blob.
C18_Culprits(claimed) ==
    {k \in DOMAIN claimed : \E o \in DOMAIN claimed : o # k /\ claimed[o] = claimed[k]}

\* The identities no blob claims, and those several blobs claim.
C18_Pool(claimed) ==
    (Ids(number_of_mice) \ Range(claimed))
        \cup {claimed[k] : k \in C18_Culprits(claimed)}

\* C18: on a matched frame, in every final assignment a blob that alone
\* claims its nearest identity keeps it, and a culprit holds an identity
\* of the free pool.
C18_OnlyCulpritsChange ==
    BodyMatches =>
        LET feats == BodyFeats
            claimed == [k \in Ids(number_of_mice) |-> C18_Claimed(feats[k])]
            culprits == C18_Culprits(claimed)
            pool == C18_Pool(claimed)
        IN  \A ids \in FinalIds(feats, mice_last_centroids,
                                 mice_last_orientations, number_of_mice) :
                \A k \in Ids(number_of_mice) :
                    IF k \in culprits THEN ids[k] \in pool
                    ELSE ids[k] = claimed[k]

\* C18, its case reached: four mice, a frame taken up for matching in
\* which two blobs claim one identity and another blob claims its own
\* alone, with an identity left unclaimed.
C18_Witness ==
    /\ BodyMatches
    /\ number_of_mice = 4
    /\ LET feats == BodyFeats
           claimed == [k \in Ids(4) |-> C18_Claimed(feats[k])]
       IN  /\ C18_Culprits(claimed) # {}
           /\ C18_Culprits(claimed) # Ids(4)
           /\ Range(claimed) # Ids(4)

\* ------------------------------------------------------------------
\* Properties of process_extract_batches

\* The writes one batch made to a log, in order.
C19_WritesOf(log, b) == SelectSeq(log, LAMBDA w : w.batch = b)

\* A log handles the batches in list order: the writes of an earlier batch
\* all come before those of a later one, and come from handled batches.
C19_InOrder(log) ==
    /\ \A p, q \in DOMAIN log : p < q => log[p].batch <= log[q].batch
    /\ \A p \in DOMAIN log : log[p].batch < batch_i

\* The frame indices a handled batch is to write: all of the first batch,
\* all but the first chunk_overlap of a later one.
C19_Kept(b) ==
    LET whole == write_args.frame_batches[b + 1]
        drop == IF b = 0 THEN 0 ELSE write_args.chunk_overlap
    IN  [j \in 1..(IF drop >= Len(whole) THEN 0 ELSE Len(whole) - drop) |-> whole[j + drop]]

\* Consecutive batches overlap by chunk_overlap frames: the frames two
\* neighbours share are the last chunk_overlap of the earlier and the first
\* chunk_overlap of the later, and every batch holds a frame beyond them.
C19_Overlapping ==
    LET bs == write_args.frame_batches
        c == write_args.chunk_overlap
    IN  /\ \A b \in DOMAIN bs : Len(bs[b]) > c
        /\ \A b \in 1..(Len(bs) - 1) :
              /\ Range(bs[b]) \cap Range(bs[b + 1]) = {bs[b + 1][j] : j \in 1..c}
              /\ \A j \in 1..c : bs[b][Len(bs[b]) - c + j] = bs[b + 1][j]

\* C19: the batches are handled in list order; a handled batch writes to
\* the h5 file exactly its frame indices less the first chunk_overlap (all
\* of them for the first batch), each with the result computed from that
\* frame, and sends the same frames to the movie; when consecutive batches
\* overlap by chunk_overlap frames the call does not raise and, once it
\* has returned, every frame index of the batches was written exactly once.
C19_OverlapDroppedOnce ==
    write_pc # "idle" =>
        LET a == write_args
            frames == UNION {Range(a.frame_batches[b]) : b \in DOMAIN a.frame_batches}
        IN  /\ C19_InOrder(output_movie)
            /\ \A b \in 0..(batch_i - 1) :
                  LET sent == C19_WritesOf(output_movie, b)
                  IN  /\ [j \in DOMAIN sent |-> sent[j].index - a.first_frame_idx] = C19_Kept(b)
                      /\ \A j \in DOMAIN sent : sent[j].value.raw = sent[j].index
            /\ a.h5_open =>
                  /\ C19_InOrder(h5_file)
                  /\ \A b \in 0..(batch_i - 1) :
                        LET written == C19_WritesOf(h5_file, b)
                        IN  /\ [j \in DOMAIN written |-> written[j].index] = C19_Kept(b)
                            /\ \A j \in DOMAIN written :
                                  written[j].value.raw = written[j].index + a.first_frame_idx
            /\ C19_Overlapping =>
                  /\ write_pc # "raised"
                  /\ (write_pc = "returned" /\ a.h5_open) =>
                        \A f \in frames :
                            Cardinality({p \in DOMAIN h5_file : h5_file[p].index = f}) = 1

\* C19, its case reached: a call that returned after three batches that
\* overlap by two frames, with the h5 file open.
C19_Witness ==
    /\ write_pc = "returned"
    /\ write_args.h5_open
    /\ write_args.chunk_overlap = MaxOverlap
    /\ Len(write_args.frame_batches) = MaxWriteBatches
    /\ write_args.first_frame_idx = 1
    /\ C19_Overlapping

\* ------------------------------------------------------------------
\* Properties of crop_and_rotate_frames

\* C20: for the frame the loop takes up, with crop_size (H, W): a missing
\* centroid leaves the zero canvas; a window that is cut lies inside the
\* padded frame, the offset added to the centroid's row is the number of
\* rows padded above, the offset added to its column is the number of
\* columns padded on the left, and the window has H rows and W columns.
C20_WindowCentred ==
    (crop_pc = "loop" /\ crop_i < Len(crop_args.centroid)) =>
        LET a == crop_args
            H == a.crop_size[1]
            W == a.crop_size[2]
            centroid == a.centroid[crop_i + 1]
            padded == PaddedShape(a.shape, a.crop_size)
            cut == CropOf(a, crop_i + 1)
        IN  /\ CentroidMissing(centroid) => cut = ZeroCanvas
            /\ ~cut.zero =>
                  /\ cut.row0 >= 0 /\ cut.row0 + cut.nrows <= padded[1]
                  /\ cut.col0 >= 0 /\ cut.col0 + cut.ncols <= padded[2]
                  /\ cut.row0 - (centroid[2] - H \div 2) = border(a.crop_size)[1]
                  /\ cut.col0 - (centroid[1] - W \div 2) = border(a.crop_size)[3]
                  /\ cut.nrows = H
                  /\ cut.ncols = W

====
